---- MODULE Spec2Model ----
(***************************************************************************)
(* dcyfr-ai-web: the authentication and authorization core.                *)
(*   - the error taxonomy            (lib/errors)                          *)
(*   - the credential hasher and the token service (lib/auth)              *)
(*   - UserService and PostService   (services), on the two tables of      *)
(*     db/schema (users, posts) with their UNIQUE and FOREIGN KEY rules    *)
(*   - the route handlers and the middleware that consume them             *)
(***************************************************************************)
EXTENDS Integers, Sequences, FiniteSets, TLC

VARIABLES users, posts, userSeq, postSeq, now, wallet, last, calls
\* calls: the service calls that have run up to their await and not resumed

vars == <<users, posts, userSeq, postSeq, now, wallet, last, calls>>

(***************************************************************************)
(* Bounds of the model.                                                    *)
(***************************************************************************)
\* the highest id the users / posts AUTOINCREMENT sequence hands out
MaxUserId == 2
MaxPostId == 2
\* the clock (in days since process start) stops here in the service runs
MaxTime == 1
\* the clock stops here in the runs that let tokens expire
MaxClock == 8

(***************************************************************************)
(* Inputs.                                                                 *)
(***************************************************************************)
Emails == {"a@x.io", "A@x.io"}
Names == {"Ann"}
NewNames == {"Bob"}
Passwords == {"pw-one-1"}
Salts == {"s1"}
\* a title is a sequence of characters
Titles == {<<>>, <<"H", "i">>, <<"h", "i", "!">>}
Contents == {"text"}

(***************************************************************************)
(* lib/errors: the error taxonomy. An error that is not an AppError (one   *)
(* thrown by the SQLite driver or by jsonwebtoken) has no statusCode and   *)
(* no code: isAppError is FALSE and both read as absent.                   *)
(***************************************************************************)
Absent == "undefined"

AppError(statusCode, message, code, name) ==
    [isAppError |-> TRUE, name |-> name, statusCode |-> statusCode,
     message |-> message, code |-> code]

NotFoundError(resource, hasId) ==
    AppError(404, IF hasId THEN <<resource, "with id not found">>
                           ELSE <<resource, "not found">>,
             "NOT_FOUND", "NotFoundError")

\* the one kind that passes details on to AppError
ValidationError(message, details) ==
    [isAppError |-> TRUE, name |-> "ValidationError", statusCode |-> 400,
     message |-> message, code |-> "VALIDATION_ERROR", details |-> details]

UnauthorizedError(message) == AppError(401, message, "UNAUTHORIZED", "UnauthorizedError")

\* a Forbidden that borrows NotFound's status and code
ForbiddenError_AsNotFound(message) == AppError(404, message, "NOT_FOUND", "ForbiddenError")

ForbiddenError(message) == AppError(403, message, "FORBIDDEN", "ForbiddenError")

ConflictError(message) == AppError(409, message, "CONFLICT", "ConflictError")

\* an error of a library: no statusCode, no code
ForeignError(name, message) ==
    [isAppError |-> FALSE, name |-> name, statusCode |-> Absent,
     message |-> message, code |-> Absent]

SqliteUnique(column) == ForeignError("SqliteError", <<"UNIQUE constraint failed", column>>)
SqliteForeignKey == ForeignError("SqliteError", <<"FOREIGN KEY constraint failed">>)

\* the outcome of a call: a returned value or a thrown error
Void == <<>>
Return(v) == [ok |-> TRUE, value |-> v]
Throw(e) == [ok |-> FALSE, error |-> e]

(***************************************************************************)
(* lib/utils slugify.                                                      *)
(***************************************************************************)
toLowerCase(c) == IF c = "H" THEN "h" ELSE IF c = "W" THEN "w" ELSE c

\* [a-z0-9], on the characters the titles use
IsAlnum(c) == c \in {"d", "e", "h", "i", "l", "o", "r", "w", "0", "2", "4"}

RECURSIVE Lowered(_)
Lowered(s) == IF s = <<>> THEN <<>> ELSE <<toLowerCase(Head(s))>> \o Lowered(Tail(s))

\* replace(/[^a-z0-9]+/g, '-'): every maximal run of other characters becomes one hyphen
RECURSIVE CollapseRuns(_, _)
CollapseRuns(s, inRun) ==
    IF s = <<>> THEN <<>>
    ELSE IF IsAlnum(Head(s)) THEN <<Head(s)>> \o CollapseRuns(Tail(s), FALSE)
    ELSE IF inRun THEN CollapseRuns(Tail(s), TRUE)
    ELSE <<"-">> \o CollapseRuns(Tail(s), TRUE)

TrimHyphens(s) ==
    LET a == IF s # <<>> /\ Head(s) = "-" THEN Tail(s) ELSE s
    IN  IF a # <<>> /\ a[Len(a)] = "-" THEN SubSeq(a, 1, Len(a) - 1) ELSE a

slugify(text) == TrimHyphens(CollapseRuns(Lowered(text), FALSE))

\* a slug derivation without the trimming step
generateSlug_NoTrim(title) == CollapseRuns(Lowered(title), FALSE)

\* examples: title.toLowerCase().replace(/[^a-z0-9]+/g, '-').replace(/^-|-$/g, '')
generateSlug(title) == TrimHyphens(CollapseRuns(Lowered(title), FALSE))

(***************************************************************************)
(* lib/auth: the credential hasher. bcrypt draws a fresh salt per call;    *)
(* the digest embeds the salt and the cost.                                *)
(***************************************************************************)
BcryptRounds == 10

\* bcrypt keys its cipher with the first 72 bytes of the password
BcryptMaxBytes == 72

BcryptKey(password) ==
    IF Len(password) > BcryptMaxBytes THEN SubSeq(password, 1, BcryptMaxBytes) ELSE password

\* a hasher that uses one salt for every call
hashPassword_FixedSalt(password, salt) ==
    [cost |-> BcryptRounds, salt |-> "s0",
     digest |-> <<"s0", BcryptRounds, BcryptKey(password)>>]

hashPassword(password, salt) ==
    [cost |-> BcryptRounds, salt |-> salt,
     digest |-> <<salt, BcryptRounds, BcryptKey(password)>>]

\* compareSync: hash again with the salt and the cost the digest embeds
verifyPassword(password, hash) ==
    hash.digest = <<hash.salt, hash.cost, BcryptKey(password)>>

(***************************************************************************)
(* lib/auth: the token service. A token is the header, the payload and the *)
(* HS256 signature over both (jsonwebtoken's sign and verify); the clock   *)
(* counts days.                                                            *)
(***************************************************************************)
JWT_SECRET == "dev-secret-change-in-production"
JWT_EXPIRES_IN == 7

JwtHeader == [alg |-> "HS256", typ |-> "JWT"]

\* a keyed hash: equal only for the same key and the same signed content
HS256(secret, header, payload) == <<"HS256", secret, header, payload>>

\* sign(payload, secret, { expiresIn }): iat and exp are added to the payload
sign(payload, secret, expiresIn, at) ==
    LET body == [userId |-> payload.userId, email |-> payload.email, role |-> payload.role,
                 iat |-> at, exp |-> at + expiresIn]
    IN  [header |-> JwtHeader, payload |-> body,
         signature |-> HS256(secret, JwtHeader, body)]

\* a string that is no JWT at all
MalformedToken == [raw |-> "invalid-token"]

\* verify(token, secret): the parts, then the signature, then the expiry
verify(token, secret, at) ==
    IF "signature" \notin DOMAIN token
    THEN Throw(ForeignError("JsonWebTokenError", "jwt malformed"))
    ELSE IF token.signature # HS256(secret, token.header, token.payload)
    THEN Throw(ForeignError("JsonWebTokenError", "invalid signature"))
    ELSE IF at >= token.payload.exp
    THEN Throw(ForeignError("TokenExpiredError", "jwt expired"))
    ELSE Return(token.payload)

\* a token service whose two halves read different secrets
verifyToken_OtherKey(token) == verify(token, "another-secret", now)

\* a token service that looks the claim's user up before it accepts
verifyToken_ChecksUser(token) ==
    LET r == verify(token, JWT_SECRET, now)
    IN  IF r.ok /\ ~ \E u \in users : u.id = r.value.userId /\ u.email = r.value.email
        THEN Throw(UnauthorizedError("Authentication required"))
        ELSE r

generateToken(payload) == sign(payload, JWT_SECRET, JWT_EXPIRES_IN, now)

verifyToken(token) == verify(token, JWT_SECRET, now)

(***************************************************************************)
(* db/schema: the rows, and the store's own rules.                         *)
(***************************************************************************)
\* .default(new Date().toISOString()) is evaluated once, when the schema module loads
BootTime == 0

NoRow == <<>>

\* select().from(users).where(eq(users.id, id)).get()
UserById(id) == IF \E u \in users : u.id = id THEN CHOOSE u \in users : u.id = id ELSE NoRow
UserByEmail(email) ==
    IF \E u \in users : u.email = email THEN CHOOSE u \in users : u.email = email ELSE NoRow
PostById(id) == IF \E p \in posts : p.id = id THEN CHOOSE p \in posts : p.id = id ELSE NoRow
PostBySlug(slug) ==
    IF \E p \in posts : p.slug = slug THEN CHOOSE p \in posts : p.slug = slug ELSE NoRow

\* rows in rowid order, as a sequence
RECURSIVE InIdOrder(_)
InIdOrder(rows) ==
    IF rows = {} THEN <<>>
    ELSE LET first == CHOOSE r \in rows : \A q \in rows : r.id <= q.id
         IN  <<first>> \o InIdOrder(rows \ {first})

(***************************************************************************)
(* services/user-service                                                   *)
(***************************************************************************)
\* a safe view that forgets to drop the hash
omitPassword_KeepsHash(user) == user

omitPassword(user) == [f \in (DOMAIN user) \ {"passwordHash"} |-> user[f]]

RECURSIVE MapOmitPassword(_)
MapOmitPassword(rows) ==
    IF rows = <<>> THEN <<>> ELSE <<omitPassword(Head(rows))>> \o MapOmitPassword(Tail(rows))

UserService_findAll == Return(MapOmitPassword(InIdOrder(users)))

UserService_findById(id) ==
    LET user == UserById(id)
    IN  IF user = NoRow THEN Throw(NotFoundError("User", TRUE))
        ELSE Return(omitPassword(user))

\* returns the row with its hash, or undefined
UserService_findByEmail(email) == Return(UserByEmail(email))

\* UserService.create on a users table whose id is a plain INTEGER PRIMARY
\* KEY: the new row takes the largest stored id plus one
UserService_create_ReusesIds(data, salt) ==
    LET existing == UserByEmail(data.email)
        free == IF users = {} THEN 1
                ELSE 1 + (CHOOSE n \in {u.id : u \in users} : \A u \in users : u.id <= n)
        user == [id |-> free, email |-> data.email, name |-> data.name,
                 passwordHash |-> hashPassword(data.password, salt), role |-> "user",
                 createdAt |-> BootTime, updatedAt |-> BootTime]
    IN  IF existing # NoRow
        THEN [res |-> Throw(ConflictError("Email already registered")),
              users |-> users, userSeq |-> userSeq]
        ELSE [res |-> Return(omitPassword(user)),
              users |-> users \cup {user}, userSeq |-> userSeq + 1]

\* UserService.create without the lookup: the INSERT itself hits the UNIQUE column
UserService_create_NoLookup(data, salt) ==
    LET user == [id |-> userSeq + 1, email |-> data.email, name |-> data.name,
                 passwordHash |-> hashPassword(data.password, salt), role |-> "user",
                 createdAt |-> BootTime, updatedAt |-> BootTime]
    IN  IF \E o \in users : o.email = data.email
        THEN [res |-> Throw(SqliteUnique("users.email")),
              users |-> users, userSeq |-> userSeq]
        ELSE [res |-> Return(omitPassword(user)),
              users |-> users \cup {user}, userSeq |-> userSeq + 1]

\* The outcome of create and the users table after it. INSERT takes the next
\* AUTOINCREMENT id; the email column is UNIQUE.
UserService_create(data, salt) ==
    LET existing == UserByEmail(data.email)
        user == [id |-> userSeq + 1, email |-> data.email, name |-> data.name,
                 passwordHash |-> hashPassword(data.password, salt), role |-> "user",
                 createdAt |-> BootTime, updatedAt |-> BootTime]
    IN  IF existing # NoRow
        THEN [res |-> Throw(ConflictError("Email already registered")),
              users |-> users, userSeq |-> userSeq]
        ELSE [res |-> Return(omitPassword(user)),
              users |-> users \cup {user}, userSeq |-> userSeq + 1]

\* { ...data, updatedAt }: the fields of data replace the row's
Patched(row, data, stamp) ==
    [f \in DOMAIN row |->
        IF f = "updatedAt" THEN stamp
        ELSE IF f \in DOMAIN data THEN data[f]
        ELSE row[f]]

\* UserService.update whose UPDATE has no WHERE clause
UserService_update_NoWhere(id, data) ==
    LET user == UserById(id)
        updated == Patched(user, data, now)
    IN  IF user = NoRow
        THEN [res |-> Throw(NotFoundError("User", TRUE)), users |-> users]
        ELSE IF \E o \in users : o.id # id /\ o.email = updated.email
        THEN [res |-> Throw(SqliteUnique("users.email")), users |-> users]
        ELSE [res |-> Return(omitPassword(updated)),
              users |-> {Patched(u, data, now) : u \in users}]

\* UserService.update on a users table whose email column is not UNIQUE
UserService_update_NoUniqueIndex(id, data) ==
    LET user == UserById(id)
        updated == Patched(user, data, now)
    IN  IF user = NoRow
        THEN [res |-> Throw(NotFoundError("User", TRUE)), users |-> users]
        ELSE [res |-> Return(omitPassword(updated)),
              users |-> (users \ {user}) \cup {updated}]

UserService_update(id, data) ==
    LET user == UserById(id)
        updated == Patched(user, data, now)
    IN  IF user = NoRow
        THEN [res |-> Throw(NotFoundError("User", TRUE)), users |-> users]
        ELSE IF \E o \in users : o.id # id /\ o.email = updated.email
        THEN [res |-> Throw(SqliteUnique("users.email")), users |-> users]
        ELSE [res |-> Return(omitPassword(updated)),
              users |-> (users \ {user}) \cup {updated}]

\* UserService.delete on a connection that does not enforce foreign keys
UserService_delete_NoCascade(id) ==
    LET user == UserById(id)
    IN  IF user = NoRow
        THEN [res |-> Throw(NotFoundError("User", TRUE)), users |-> users, posts |-> posts]
        ELSE [res |-> Return(Void), users |-> users \ {user}, posts |-> posts]

\* DELETE FROM users; posts.author_id is ON DELETE CASCADE and foreign_keys is ON
UserService_delete(id) ==
    LET user == UserById(id)
    IN  IF user = NoRow
        THEN [res |-> Throw(NotFoundError("User", TRUE)), users |-> users, posts |-> posts]
        ELSE [res |-> Return(Void), users |-> users \ {user},
              posts |-> {p \in posts : p.authorId # id}]

(***************************************************************************)
(* services/post-service                                                   *)
(***************************************************************************)
Null == "null"

\* a JavaScript truthiness test of an optional string field
Truthy(data, field) == field \in DOMAIN data /\ data[field] # <<>> /\ data[field] # ""

RECURSIVE PublishedOnly(_)
PublishedOnly(rows) ==
    IF rows = <<>> THEN <<>>
    ELSE IF Head(rows).published THEN <<Head(rows)>> \o PublishedOnly(Tail(rows))
    ELSE PublishedOnly(Tail(rows))

\* findPublished without its where clause
PostService_findPublished_All == Return(InIdOrder(posts))

PostService_findPublished == Return(PublishedOnly(InIdOrder(posts)))

PostService_findByAuthor(authorId) ==
    Return(InIdOrder({p \in posts : p.authorId = authorId}))

PostService_findById(id) ==
    LET post == PostById(id)
    IN  IF post = NoRow THEN Throw(NotFoundError("Post", TRUE)) ELSE Return(post)

\* findBySlug whose miss throws a plain Error
PostService_findBySlug_PlainError(slug) ==
    LET post == PostBySlug(slug)
    IN  IF post = NoRow THEN Throw(ForeignError("Error", <<"Post", "not found">>))
        ELSE Return(post)

PostService_findBySlug(slug) ==
    LET post == PostBySlug(slug)
    IN  IF post = NoRow THEN Throw(NotFoundError("Post", FALSE)) ELSE Return(post)

\* { ...data, authorId }
WithAuthor(data, authorId) ==
    [f \in (DOMAIN data) \cup {"authorId"} |-> IF f = "authorId" THEN authorId ELSE data[f]]

\* PostService.create whose published flag defaults to true
PostService_create_PublishedByDefault(data) ==
    LET slug == slugify(data.title)
        post == [id |-> postSeq + 1, title |-> data.title, slug |-> slug,
                 content |-> data.content,
                 excerpt |-> IF Truthy(data, "excerpt") THEN data.excerpt ELSE Null,
                 published |-> IF "published" \in DOMAIN data THEN data.published ELSE TRUE,
                 authorId |-> data.authorId,
                 createdAt |-> BootTime, updatedAt |-> BootTime]
    IN  IF \E o \in posts : o.slug = slug
        THEN [res |-> Throw(SqliteUnique("posts.slug")), posts |-> posts, postSeq |-> postSeq]
        ELSE IF ~ \E u \in users : u.id = data.authorId
        THEN [res |-> Throw(SqliteForeignKey), posts |-> posts, postSeq |-> postSeq]
        ELSE [res |-> Return(post), posts |-> posts \cup {post}, postSeq |-> postSeq + 1]

\* INSERT INTO posts: slug is UNIQUE, author_id REFERENCES users(id)
PostService_create(data) ==
    LET slug == slugify(data.title)
        post == [id |-> postSeq + 1, title |-> data.title, slug |-> slug,
                 content |-> data.content,
                 excerpt |-> IF Truthy(data, "excerpt") THEN data.excerpt ELSE Null,
                 published |-> IF "published" \in DOMAIN data THEN data.published ELSE FALSE,
                 authorId |-> data.authorId,
                 createdAt |-> BootTime, updatedAt |-> BootTime]
    IN  IF \E o \in posts : o.slug = slug
        THEN [res |-> Throw(SqliteUnique("posts.slug")), posts |-> posts, postSeq |-> postSeq]
        ELSE IF ~ \E u \in users : u.id = data.authorId
        THEN [res |-> Throw(SqliteForeignKey), posts |-> posts, postSeq |-> postSeq]
        ELSE [res |-> Return(post), posts |-> posts \cup {post}, postSeq |-> postSeq + 1]

\* updateData: { ...data, updatedAt } and, if (data.title), slug: slugify(data.title)
UpdateData(data) ==
    IF Truthy(data, "title")
    THEN [f \in (DOMAIN data) \cup {"slug"} |->
            IF f = "slug" THEN slugify(data.title) ELSE data[f]]
    ELSE data

\* PostService.update without the ownership test
PostService_update_AnyActor(id, authorId, data) ==
    LET found == PostService_findById(id)
        post == found.value
        updated == Patched(post, UpdateData(data), now)
    IN  IF ~ found.ok THEN [res |-> found, posts |-> posts]
        ELSE IF \E o \in posts : o.id # id /\ o.slug = updated.slug
        THEN [res |-> Throw(SqliteUnique("posts.slug")), posts |-> posts]
        ELSE [res |-> Return(updated), posts |-> (posts \ {post}) \cup {updated}]

PostService_update(id, authorId, data) ==
    LET found == PostService_findById(id)
        post == found.value
        updated == Patched(post, UpdateData(data), now)
    IN  IF ~ found.ok THEN [res |-> found, posts |-> posts]
        ELSE IF post.authorId # authorId
        THEN [res |-> Throw(ForbiddenError("Not the post owner")), posts |-> posts]
        ELSE IF \E o \in posts : o.id # id /\ o.slug = updated.slug
        THEN [res |-> Throw(SqliteUnique("posts.slug")), posts |-> posts]
        ELSE [res |-> Return(updated), posts |-> (posts \ {post}) \cup {updated}]

\* PostService.delete that authorizes before it loads
PostService_delete_AuthorizeFirst(id, authorId) ==
    LET post == PostById(id)
    IN  IF ~ \E o \in posts : o.id = id /\ o.authorId = authorId
        THEN [res |-> Throw(ForbiddenError("Not the post owner")), posts |-> posts]
        ELSE [res |-> Return(Void), posts |-> posts \ {post}]

PostService_delete(id, authorId) ==
    LET found == PostService_findById(id)
        post == found.value
    IN  IF ~ found.ok THEN [res |-> found, posts |-> posts]
        ELSE IF post.authorId # authorId
        THEN [res |-> Throw(ForbiddenError("Not the post owner")), posts |-> posts]
        ELSE [res |-> Return(Void), posts |-> posts \ {post}]

(***************************************************************************)
(* lib/schemas: the zod schemas of the request bodies. A parse returns the *)
(* known keys of the body, or throws a ZodError.                           *)
(***************************************************************************)
MaxTitleLength == 200
MaxNameLength == 100
MinPasswordLength == 8

ZodError == ForeignError("ZodError", "Validation failed")

IsEmail(text) == text \in {"a@x.io", "A@x.io", "b@x.io"}

Pick(body, keys) == [f \in (DOMAIN body) \cap keys |-> body[f]]

registerSchema(body) ==
    IF /\ {"email", "name", "password"} \subseteq DOMAIN body
       /\ IsEmail(body.email)
       /\ Len(body.name) >= 1 /\ Len(body.name) <= MaxNameLength
       /\ Len(body.password) >= MinPasswordLength
    THEN Return(Pick(body, {"email", "name", "password"}))
    ELSE Throw(ZodError)

loginSchema(body) ==
    IF /\ {"email", "password"} \subseteq DOMAIN body
       /\ IsEmail(body.email)
       /\ Len(body.password) >= 1
    THEN Return(Pick(body, {"email", "password"}))
    ELSE Throw(ZodError)

\* each field of a post body, where present, is well formed
PostFieldsValid(body) ==
    /\ "title" \in DOMAIN body => Len(body.title) >= 1 /\ Len(body.title) <= MaxTitleLength
    /\ "content" \in DOMAIN body => Len(body.content) >= 1
    /\ "published" \in DOMAIN body => body.published \in BOOLEAN

PostKeys == {"title", "content", "excerpt", "published"}

\* published: z.boolean().default(false)
createPostSchema(body) ==
    IF {"title", "content"} \subseteq DOMAIN body /\ PostFieldsValid(body)
    THEN Return([f \in ((DOMAIN body) \cap PostKeys) \cup {"published"} |->
                    IF f = "published" /\ "published" \notin DOMAIN body THEN FALSE
                    ELSE body[f]])
    ELSE Throw(ZodError)

\* createPostSchema.partial().passthrough(): unknown keys are kept
updatePostSchema_Passthrough(body) ==
    IF PostFieldsValid(body) THEN Return(body) ELSE Throw(ZodError)

\* createPostSchema.partial(): every key optional, an absent key stays absent
updatePostSchema(body) ==
    IF PostFieldsValid(body) THEN Return(Pick(body, PostKeys)) ELSE Throw(ZodError)

(***************************************************************************)
(* The route handlers. A request carries an Authorization header (or       *)
(* none), route parameters and a JSON body; a handler returns the response *)
(* and the tables as it leaves them.                                       *)
(***************************************************************************)
Json(body, status) == [kind |-> "json", status |-> status, body |-> body]
NoContent == [kind |-> "empty", status |-> 204, body |-> <<>>]

NoHeader == [scheme |-> "none"]
Bearer(token) == [scheme |-> "Bearer", token |-> token]

\* authHeader?.startsWith('Bearer ')
IsBearer(header) == header.scheme = "Bearer"

Unauthenticated401 == Json([error |-> "Authentication required"], 401)
InternalError500 == Json([error |-> "Internal server error"], 500)
ValidationFailed400 == Json([error |-> "Validation failed", details |-> "issues"], 400)

\* the catch block of the post routes
RenderPostError_ExpiredIs401(error) ==
    IF error.name = "ZodError" THEN ValidationFailed400
    ELSE IF error.name = "TokenExpiredError" THEN Json([error |-> "Token expired"], 401)
    ELSE IF error.isAppError THEN Json([error |-> error.message], error.statusCode)
    ELSE InternalError500

RenderPostError(error) ==
    IF error.name = "ZodError" THEN ValidationFailed400
    ELSE IF error.isAppError THEN Json([error |-> error.message], error.statusCode)
    ELSE InternalError500

\* the catch block of the register route
RenderRegisterError(error) ==
    IF error.name = "ZodError" THEN ValidationFailed400
    ELSE IF error.isAppError
    THEN Json([error |-> error.message, code |-> error.code], error.statusCode)
    ELSE InternalError500

\* the catch block of the login route
RenderLoginError(error) ==
    IF error.name = "ZodError" THEN ValidationFailed400
    ELSE IF error.name = "UnauthorizedError" THEN Json([error |-> error.message], 401)
    ELSE InternalError500

ClaimOf(user) == [userId |-> user.id, email |-> user.email, role |-> user.role]

\* POST /api/auth/register
RegisterRoute(body, salt) ==
    LET parsed == registerSchema(body)
        made == UserService_create(parsed.value, salt)
        user == made.res.value
    IN  IF ~ parsed.ok
        THEN [response |-> RenderRegisterError(parsed.error),
              users |-> users, userSeq |-> userSeq]
        ELSE IF ~ made.res.ok
        THEN [response |-> RenderRegisterError(made.res.error),
              users |-> users, userSeq |-> userSeq]
        ELSE [response |-> Json([user |-> user, token |-> generateToken(ClaimOf(user))], 201),
              users |-> made.users, userSeq |-> made.userSeq]

\* POST /api/auth/login that does not look at the password
LoginRoute_NoPasswordCheck(body) ==
    LET parsed == loginSchema(body)
        found == UserService_findByEmail(parsed.value.email)
        user == found.value
    IN  IF ~ parsed.ok THEN RenderLoginError(parsed.error)
        ELSE IF user = NoRow
        THEN RenderLoginError(UnauthorizedError("Invalid email or password"))
        ELSE Json([user |-> [id |-> user.id, email |-> user.email,
                             name |-> user.name, role |-> user.role],
                   token |-> generateToken(ClaimOf(user))], 200)

\* POST /api/auth/login with a message of its own for an unknown email
LoginRoute_NamesUnknownEmail(body) ==
    LET parsed == loginSchema(body)
        found == UserService_findByEmail(parsed.value.email)
        user == found.value
    IN  IF ~ parsed.ok THEN RenderLoginError(parsed.error)
        ELSE IF user = NoRow
        THEN RenderLoginError(UnauthorizedError("Unknown email"))
        ELSE IF ~ verifyPassword(parsed.value.password, user.passwordHash)
        THEN RenderLoginError(UnauthorizedError("Invalid email or password"))
        ELSE Json([user |-> [id |-> user.id, email |-> user.email,
                             name |-> user.name, role |-> user.role],
                   token |-> generateToken(ClaimOf(user))], 200)

\* POST /api/auth/login
LoginRoute(body) ==
    LET parsed == loginSchema(body)
        found == UserService_findByEmail(parsed.value.email)
        user == found.value
    IN  IF ~ parsed.ok THEN RenderLoginError(parsed.error)
        ELSE IF user = NoRow
        THEN RenderLoginError(UnauthorizedError("Invalid email or password"))
        ELSE IF ~ verifyPassword(parsed.value.password, user.passwordHash)
        THEN RenderLoginError(UnauthorizedError("Invalid email or password"))
        ELSE Json([user |-> [id |-> user.id, email |-> user.email,
                             name |-> user.name, role |-> user.role],
                   token |-> generateToken(ClaimOf(user))], 200)

\* POST /api/posts
CreatePostRoute(header, body) ==
    LET payload == verifyToken(header.token)
        parsed == createPostSchema(body)
        made == PostService_create(WithAuthor(parsed.value, payload.value.userId))
        same == [posts |-> posts, postSeq |-> postSeq]
    IN  IF ~ IsBearer(header) THEN [response |-> Unauthenticated401] @@ same
        ELSE IF ~ payload.ok THEN [response |-> RenderPostError(payload.error)] @@ same
        ELSE IF ~ parsed.ok THEN [response |-> RenderPostError(parsed.error)] @@ same
        ELSE IF ~ made.res.ok THEN [response |-> RenderPostError(made.res.error)] @@ same
        ELSE [response |-> Json(made.res.value, 201),
              posts |-> made.posts, postSeq |-> made.postSeq]

\* PATCH /api/posts/[id]
UpdatePostRoute(header, id, body) ==
    LET payload == verifyToken(header.token)
        parsed == updatePostSchema(body)
        made == PostService_update(id, payload.value.userId, parsed.value)
    IN  IF ~ IsBearer(header) THEN [response |-> Unauthenticated401, posts |-> posts]
        ELSE IF ~ payload.ok
        THEN [response |-> RenderPostError(payload.error), posts |-> posts]
        ELSE IF ~ parsed.ok
        THEN [response |-> RenderPostError(parsed.error), posts |-> posts]
        ELSE IF ~ made.res.ok
        THEN [response |-> RenderPostError(made.res.error), posts |-> posts]
        ELSE [response |-> Json(made.res.value, 200), posts |-> made.posts]

\* DELETE /api/posts/[id]
DeletePostRoute(header, id) ==
    LET payload == verifyToken(header.token)
        made == PostService_delete(id, payload.value.userId)
    IN  IF ~ IsBearer(header) THEN [response |-> Unauthenticated401, posts |-> posts]
        ELSE IF ~ payload.ok
        THEN [response |-> RenderPostError(payload.error), posts |-> posts]
        ELSE IF ~ made.res.ok
        THEN [response |-> RenderPostError(made.res.error), posts |-> posts]
        ELSE [response |-> NoContent, posts |-> made.posts]

(***************************************************************************)
(* middleware and the dashboard page: the token travels in a cookie.       *)
(***************************************************************************)
NoCookie == [present |-> FALSE]
Cookie(token) == [present |-> TRUE, token |-> token]

PassThrough == [kind |-> "next", status |-> 200, body |-> <<>>]
Redirect(location, search) ==
    [kind |-> "redirect", status |-> 307, location |-> location, search |-> search]

\* A pathname is the sequence of its segments: /dashboard/settings is
\* <<"dashboard", "settings">> and / is <<>>.
publicPaths == {<<>>, <<"login">>, <<"register">>, <<"blog">>, <<"api", "auth">>}

\* text.startsWith(prefix), on the segments the requests use
StartsWith(text, prefix) ==
    \/ text = prefix
    \/ <<text, prefix>> \in {<<"dashboard-old", "dashboard">>, <<"healthz", "health">>}

\* text.includes('.')
HasDot(text) == text \in {"export.csv", "favicon.ico"}

\* pathname === p || pathname.startsWith(p + '/')
UnderPublicPath(pathname, p) ==
    \/ pathname = p
    \/ /\ p # <<>>
       /\ Len(pathname) > Len(p)
       /\ SubSeq(pathname, 1, Len(p)) = p

IsStaticOrHealth(pathname) ==
    \/ Len(pathname) >= 1 /\ StartsWith(pathname[1], "_next")
    \/ Len(pathname) >= 2 /\ pathname[1] = "api" /\ StartsWith(pathname[2], "health")
    \/ \E i \in 1..Len(pathname) : HasDot(pathname[i])

\* pathname.startsWith('/dashboard')
StartsWithDashboard(pathname) == Len(pathname) >= 1 /\ StartsWith(pathname[1], "dashboard")

middleware(pathname, cookie) ==
    IF \E p \in publicPaths : UnderPublicPath(pathname, p) THEN PassThrough
    ELSE IF IsStaticOrHealth(pathname) THEN PassThrough
    ELSE IF StartsWithDashboard(pathname)
    THEN IF ~ cookie.present THEN Redirect("/login", [callbackUrl |-> pathname])
         ELSE IF verifyToken(cookie.token).ok THEN PassThrough
         ELSE Redirect("/login", [callbackUrl |-> pathname])
    ELSE PassThrough

\* app/dashboard/page
DashboardPage(cookie) ==
    LET user == verifyToken(cookie.token)
    IN  IF ~ cookie.present THEN Redirect("/login", <<>>)
        ELSE IF ~ user.ok THEN Redirect("/login", <<>>)
        ELSE [kind |-> "page", status |-> 200,
              body |-> [email |-> user.value.email,
                        userPosts |-> PostService_findByAuthor(user.value.userId).value]]

(***************************************************************************)
(* The blog pages: the listing and the page of one post.                   *)
(***************************************************************************)
NotFoundPage == [kind |-> "not-found", status |-> 404, body |-> <<>>]

\* app/blog/page
BlogPage ==
    [kind |-> "page", status |-> 200, body |-> [posts |-> PostService_findPublished.value]]

\* a detail page without the published test
BlogPostPage_ShowsDrafts(slug) ==
    LET found == PostService_findBySlug(slug)
    IN  IF ~ found.ok THEN NotFoundPage
        ELSE [kind |-> "page", status |-> 200, body |-> [post |-> found.value]]

\* app/blog/[slug]/page
BlogPostPage(slug) ==
    LET found == PostService_findBySlug(slug)
    IN  IF ~ found.ok THEN NotFoundPage
        ELSE IF ~ found.value.published THEN NotFoundPage
        ELSE [kind |-> "page", status |-> 200, body |-> [post |-> found.value]]

(***************************************************************************)
(* State after construction: both tables empty.                            *)
(***************************************************************************)
NoCall == [op |-> "none", args |-> <<>>, res |-> Return(Void)]

Init ==
    /\ users = {}
    /\ posts = {}
    /\ userSeq = 0
    /\ postSeq = 0
    /\ now = 0
    /\ wallet = {}
    /\ calls = {}
    /\ last = NoCall

\* a caller names any id handed out so far, or the next one (which no row has)
KnownUserIds == 1..(userSeq + 1)
KnownPostIds == 1..(postSeq + 1)

Called(op, args, res) == [op |-> op, args |-> args, res |-> res]

UserFindAll ==
    /\ last' = Called("UserService.findAll", <<>>, UserService_findAll)
    /\ UNCHANGED <<users, posts, userSeq, postSeq, now, wallet, calls>>

UserFindById ==
    \E id \in KnownUserIds :
        /\ last' = Called("UserService.findById", [id |-> id], UserService_findById(id))
        /\ UNCHANGED <<users, posts, userSeq, postSeq, now, wallet, calls>>

UserFindByEmail ==
    \E email \in Emails :
        /\ last' = Called("UserService.findByEmail", [email |-> email],
                          UserService_findByEmail(email))
        /\ UNCHANGED <<users, posts, userSeq, postSeq, now, wallet, calls>>

UserCreate ==
    \E email \in Emails, name \in Names, password \in Passwords, salt \in Salts :
        LET data == [email |-> email, name |-> name, password |-> password]
            r == UserService_create(data, salt)
        IN  /\ userSeq < MaxUserId
            /\ users' = r.users
            /\ userSeq' = r.userSeq
            /\ last' = Called("UserService.create", data, r.res)
            /\ UNCHANGED <<posts, postSeq, now, wallet, calls>>

UserPatches ==
    {<<>>} \cup {[name |-> n] : n \in NewNames} \cup {[email |-> e] : e \in Emails}

UserUpdate ==
    \E id \in KnownUserIds, data \in UserPatches :
        LET r == UserService_update(id, data)
        IN  /\ users' = r.users
            /\ last' = Called("UserService.update", [id |-> id, data |-> data], r.res)
            /\ UNCHANGED <<posts, userSeq, postSeq, now, wallet, calls>>

UserDelete ==
    \E id \in KnownUserIds :
        LET r == UserService_delete(id)
        IN  /\ users' = r.users
            /\ posts' = r.posts
            /\ last' = Called("UserService.delete", [id |-> id], r.res)
            /\ UNCHANGED <<userSeq, postSeq, now, wallet, calls>>

PostFindPublished ==
    /\ last' = Called("PostService.findPublished", <<>>, PostService_findPublished)
    /\ UNCHANGED <<users, posts, userSeq, postSeq, now, wallet, calls>>

PostFindByAuthor ==
    \E authorId \in KnownUserIds :
        /\ last' = Called("PostService.findByAuthor", [authorId |-> authorId],
                          PostService_findByAuthor(authorId))
        /\ UNCHANGED <<users, posts, userSeq, postSeq, now, wallet, calls>>

PostFindById ==
    \E id \in KnownPostIds :
        /\ last' = Called("PostService.findById", [id |-> id], PostService_findById(id))
        /\ UNCHANGED <<users, posts, userSeq, postSeq, now, wallet, calls>>

PostFindBySlug ==
    \E t \in Titles :
        /\ last' = Called("PostService.findBySlug", [slug |-> slugify(t)],
                          PostService_findBySlug(slugify(t)))
        /\ UNCHANGED <<users, posts, userSeq, postSeq, now, wallet, calls>>

TitleInputs == {[title |-> t, content |-> c] : t \in Titles, c \in Contents}

PostCreate(inputs) ==
    \E input \in inputs, authorId \in KnownUserIds :
        LET data == WithAuthor(input, authorId)
            r == PostService_create(data)
        IN  /\ postSeq < MaxPostId
            /\ posts' = r.posts
            /\ postSeq' = r.postSeq
            /\ last' = Called("PostService.create", data, r.res)
            /\ UNCHANGED <<users, userSeq, now, wallet, calls>>

TitlePatches ==
    {<<>>} \cup {[title |-> t] : t \in Titles} \cup {[content |-> c] : c \in Contents}

PostUpdate(patches) ==
    \E id \in KnownPostIds, authorId \in KnownUserIds, data \in patches :
        LET r == PostService_update(id, authorId, data)
        IN  /\ posts' = r.posts
            /\ last' = Called("PostService.update",
                              [id |-> id, authorId |-> authorId, data |-> data], r.res)
            /\ UNCHANGED <<users, userSeq, postSeq, now, wallet, calls>>

PostDelete ==
    \E id \in KnownPostIds, authorId \in KnownUserIds :
        LET r == PostService_delete(id, authorId)
        IN  /\ posts' = r.posts
            /\ last' = Called("PostService.delete", [id |-> id, authorId |-> authorId], r.res)
            /\ UNCHANGED <<users, userSeq, postSeq, now, wallet, calls>>

\* the clock moves on by some days
Elapse(days, max) ==
    /\ now + days <= max
    /\ now' = now + days
    /\ UNCHANGED <<users, posts, userSeq, postSeq, wallet, last, calls>>

(***************************************************************************)
(* The post service, on a store in which two users have registered.        *)
(***************************************************************************)
Author(id, email) ==
    [id |-> id, email |-> email, name |-> "Ann",
     passwordHash |-> hashPassword("pw-one-1", "s1"), role |-> "user",
     createdAt |-> BootTime, updatedAt |-> BootTime]

InitPost ==
    /\ users = {Author(1, "a@x.io"), Author(2, "A@x.io")}
    /\ posts = {}
    /\ userSeq = 2
    /\ postSeq = 0
    /\ now = 0
    /\ wallet = {}
    /\ calls = {}
    /\ last = NoCall

NextPost ==
    \/ PostCreate(TitleInputs)
    \/ PostUpdate(TitlePatches)
    \/ PostDelete
    \/ Elapse(1, MaxTime)

SpecPost == InitPost /\ [][NextPost]_vars
(***************************************************************************)
(* The token service, beside the user service: one user has registered.    *)
(***************************************************************************)
OtherSecret == "another-secret"

Claims ==
    {[userId |-> 1, email |-> "a@x.io", role |-> "user"],
     [userId |-> 2, email |-> "A@x.io", role |-> "admin"]}

\* what a client can present: a token it holds, the same payload signed with
\* another secret, or a string that is no token
Forged(token) ==
    [header |-> token.header, payload |-> token.payload,
     signature |-> HS256(OtherSecret, token.header, token.payload)]

\* wallet: what the client keeps of its latest login: the claim the token was
\* issued for, the day of issuance and the token
Held == {h.token : h \in wallet}

Presentable == Held \cup {Forged(t) : t \in Held} \cup {MalformedToken}

IssueToken ==
    \E claim \in Claims :
        LET token == generateToken(claim)
        IN  /\ wallet' = {[claim |-> claim, at |-> now, token |-> token]}
            /\ last' = Called("generateToken", claim, Return(token))
            /\ UNCHANGED <<users, posts, userSeq, postSeq, now, calls>>

VerifyToken ==
    \E token \in Presentable :
        /\ last' = Called("verifyToken", [token |-> token, at |-> now], verifyToken(token))
        /\ UNCHANGED <<users, posts, userSeq, postSeq, now, wallet, calls>>

InitToken ==
    /\ users = {Author(1, "a@x.io")}
    /\ posts = {}
    /\ userSeq = 1
    /\ postSeq = 0
    /\ now = 0
    /\ wallet = {}
    /\ calls = {}
    /\ last = NoCall

NextToken ==
    \/ IssueToken
    \/ VerifyToken
    \/ UserUpdate
    \/ UserDelete
    \/ Elapse(1, MaxClock)

SpecToken == InitToken /\ [][NextToken]_vars

(***************************************************************************)
(* The routes, from the empty store. The client keeps the session of its   *)
(* latest successful register or login; a week passes at a time.           *)
(***************************************************************************)
RegisterBodies ==
    {[email |-> e, name |-> n, password |-> pw] :
        e \in Emails, n \in Names, pw \in Passwords \cup {"short"}}

LoginBodies ==
    {[email |-> e, password |-> pw] : e \in Emails, pw \in Passwords \cup {"pw-wrong-2"}}
    \cup {[email |-> "nobody", password |-> "pw-wrong-2"]}

\* the session a client keeps of a response that carries a token
SessionOf(response) ==
    IF response.status \in {200, 201}
    THEN {[claim |-> [userId |-> response.body.user.id, email |-> response.body.user.email,
                      role |-> response.body.user.role],
           at |-> now, token |-> response.body.token]}
    ELSE wallet

Register ==
    \E body \in RegisterBodies, salt \in Salts :
        LET r == RegisterRoute(body, salt)
        IN  /\ userSeq < MaxUserId
            /\ users' = r.users
            /\ userSeq' = r.userSeq
            /\ wallet' = SessionOf(r.response)
            /\ last' = Called("POST /api/auth/register", [body |-> body], r.response)
            /\ UNCHANGED <<posts, postSeq, now, calls>>

Login ==
    \E body \in LoginBodies :
        LET response == LoginRoute(body)
        IN  /\ wallet' = SessionOf(response)
            /\ last' = Called("POST /api/auth/login", [body |-> body], response)
            /\ UNCHANGED <<users, posts, userSeq, postSeq, now, calls>>

Headers == {NoHeader, [scheme |-> "Basic"]} \cup {Bearer(t) : t \in Presentable}
Cookies == {NoCookie} \cup {Cookie(t) : t \in Presentable}

CreateBodies == {[title |-> t, content |-> c] : t \in Titles, c \in Contents}
PatchBodies == {<<>>} \cup {[title |-> t] : t \in Titles}

CreatePost ==
    \E header \in Headers, body \in CreateBodies :
        LET r == CreatePostRoute(header, body)
        IN  /\ postSeq < MaxPostId
            /\ posts' = r.posts
            /\ postSeq' = r.postSeq
            /\ last' = Called("POST /api/posts",
                              [header |-> header, body |-> body, at |-> now], r.response)
            /\ UNCHANGED <<users, userSeq, now, wallet, calls>>

UpdatePost ==
    \E header \in Headers, id \in KnownPostIds, body \in PatchBodies :
        LET r == UpdatePostRoute(header, id, body)
        IN  /\ posts' = r.posts
            /\ last' = Called("PATCH /api/posts/[id]",
                              [header |-> header, id |-> id, body |-> body, at |-> now],
                              r.response)
            /\ UNCHANGED <<users, userSeq, postSeq, now, wallet, calls>>

DeletePost ==
    \E header \in Headers, id \in KnownPostIds :
        LET r == DeletePostRoute(header, id)
        IN  /\ posts' = r.posts
            /\ last' = Called("DELETE /api/posts/[id]",
                              [header |-> header, id |-> id, at |-> now], r.response)
            /\ UNCHANGED <<users, userSeq, postSeq, now, wallet, calls>>

Pathnames ==
    {<<"dashboard">>, <<"dashboard", "settings">>, <<"dashboard", "export.csv">>,
     <<"blog">>, <<"settings">>}

Middleware ==
    \E pathname \in Pathnames, cookie \in Cookies :
        /\ last' = Called("middleware", [pathname |-> pathname, cookie |-> cookie, at |-> now],
                          middleware(pathname, cookie))
        /\ UNCHANGED <<users, posts, userSeq, postSeq, now, wallet, calls>>

Dashboard ==
    \E cookie \in Cookies :
        /\ last' = Called("GET /dashboard", [cookie |-> cookie, at |-> now],
                          DashboardPage(cookie))
        /\ UNCHANGED <<users, posts, userSeq, postSeq, now, wallet, calls>>

(***************************************************************************)
(* The user service and the two routes in front of it, from the empty     *)
(* store.                                                                  *)
(***************************************************************************)
Next ==
    \/ UserFindAll
    \/ UserFindById
    \/ UserFindByEmail
    \/ UserCreate
    \/ UserUpdate
    \/ UserDelete
    \/ Register
    \/ Login
    \/ Elapse(1, MaxTime)

Spec == Init /\ [][Next]_vars

NextHttp ==
    \/ Register
    \/ Login
    \/ CreatePost
    \/ UpdatePost
    \/ DeletePost
    \/ Middleware
    \/ Dashboard
    \/ Elapse(JWT_EXPIRES_IN, MaxClock)

SpecHttp == Init /\ [][NextHttp]_vars

(***************************************************************************)
(* Properties.                                                             *)
(***************************************************************************)
IsPostMutation(c) == c.op \in {"PostService.update", "PostService.delete"}

Failed(c, statusCode, code) ==
    /\ ~ c.res.ok
    /\ c.res.error.isAppError
    /\ c.res.error.statusCode = statusCode
    /\ c.res.error.code = code

\* C1: PostService.update and PostService.delete called on a stored post by an
\* acting id other than its authorId fail with Forbidden (403, FORBIDDEN) and
\* leave the posts table as it was; and a post row is changed or removed by
\* PostService only in a call whose acting id is the row's authorId.
C1_OwnerOnly ==
    [][now' = now =>
        /\ \A p \in posts :
              (IsPostMutation(last') /\ last'.args.id = p.id
                    /\ last'.args.authorId # p.authorId)
                 => /\ Failed(last', 403, "FORBIDDEN")
                    /\ p \in posts'
                    /\ posts' = posts
        /\ \A p \in posts :
              p \notin posts'
                 => /\ IsPostMutation(last')
                    /\ last'.res.ok
                    /\ last'.args.id = p.id
                    /\ last'.args.authorId = p.authorId]_vars

\* a stored post, and the last call an update of it by somebody else, refused
C1_Witness ==
    /\ last.op = "PostService.update"
    /\ "title" \in DOMAIN last.args.data
    /\ Failed(last, 403, "FORBIDDEN")
    /\ \E p \in posts : p.id = last.args.id /\ p.authorId # last.args.authorId
    /\ \E u \in users : u.id = last.args.authorId

\* C2: update and delete load before they authorize. An id that no stored post
\* has yields NotFound (404, NOT_FOUND) whatever the acting id; Forbidden is
\* the outcome only when the post exists and belongs to another user; in both
\* cases the tables are unchanged.
C2_LoadBeforeAuthorize ==
    [][(now' = now /\ IsPostMutation(last')) =>
        /\ (~ \E p \in posts : p.id = last'.args.id) => Failed(last', 404, "NOT_FOUND")
        /\ Failed(last', 403, "FORBIDDEN")
              => \E p \in posts : p.id = last'.args.id /\ p.authorId # last'.args.authorId
        /\ (Failed(last', 404, "NOT_FOUND") \/ Failed(last', 403, "FORBIDDEN"))
              => posts' = posts /\ users' = users]_vars

\* a delete of an id no post has, by the author of a stored post
C2_Witness ==
    /\ last.op = "PostService.delete"
    /\ Failed(last, 404, "NOT_FOUND")
    /\ ~ \E p \in posts : p.id = last.args.id
    /\ \E p \in posts : p.authorId = last.args.authorId

\* C3: UserService.create with an email equal, character for character, to a
\* stored user's email fails with Conflict (409, CONFLICT) and the users table
\* (the earlier row included) is unchanged.
C3_DuplicateEmail ==
    [][(now' = now /\ last'.op = "UserService.create"
            /\ \E u \in users : u.email = last'.args.email)
        => /\ Failed(last', 409, "CONFLICT")
           /\ users' = users
           /\ userSeq' = userSeq]_vars

\* the second create with a stored email, refused, while an email that
\* differs from it only in case is free
C3_Witness ==
    /\ last.op = "UserService.create"
    /\ Failed(last, 409, "CONFLICT")
    /\ \E u \in users : u.email = last.args.email
    /\ Cardinality(users) = 1

\* C10: every stored post's slug is the slug derived from its current title
\* (an update that carries a title, whatever its value, stores the slug
\* recomputed from it).
C10_SlugTracksTitle == \A p \in posts : p.slug = slugify(p.title)
\* the entries of the wallet whose token the last verifyToken call was given
HoldersOfLast == {h \in wallet : h.token = last.args.token}

\* what verifyToken was given is no valid token at the moment of the call
BadToken(token, at) ==
    \/ "signature" \notin DOMAIN token
    \/ token.signature # HS256(JWT_SECRET, token.header, token.payload)
    \/ at >= token.payload.exp

\* C5: verifyToken given a malformed token, one signed with another secret or
\* an expired one fails, and the failure is the Unauthenticated kind
\* (401, UNAUTHORIZED).
C5_VerifyFailureIsUnauthenticated ==
    (last.op = "verifyToken" /\ BadToken(last.args.token, last.args.at))
        => Failed(last, 401, "UNAUTHORIZED")

\* C8: verification is stateless. A token a client was issued is accepted on
\* every day before issuance + 7 days and refused on every day after it,
\* whatever has become of the users table; its expiry is the one set at
\* issuance.
C8_StatelessUntilExpiry ==
    /\ \A h \in wallet : h.token.payload.exp = h.at + JWT_EXPIRES_IN
    /\ last.op = "verifyToken" =>
          \A h \in HoldersOfLast :
              /\ last.args.at < h.at + JWT_EXPIRES_IN => last.res.ok
              /\ last.args.at > h.at + JWT_EXPIRES_IN => ~ last.res.ok

\* a token accepted although its user's row is gone or carries another email
C8_Witness ==
    /\ last.op = "verifyToken"
    /\ last.res.ok
    /\ \E h \in HoldersOfLast :
          /\ h.claim.userId = 1
          /\ ~ \E u \in users : u.id = h.claim.userId /\ u.email = h.claim.email

\* C9: verifyToken(generateToken(c)), before the expiry and with the same
\* secret, returns userId, email and role as issued.
C9_RoundTrip ==
    last.op = "verifyToken" =>
        \A h \in HoldersOfLast :
            last.args.at < h.at + JWT_EXPIRES_IN
               => /\ last.res.ok
                  /\ last.res.value.userId = h.claim.userId
                  /\ last.res.value.email = h.claim.email
                  /\ last.res.value.role = h.claim.role

\* an admin's token verified on the last day before its expiry
C9_Witness ==
    /\ last.op = "verifyToken"
    /\ last.res.ok
    /\ \E h \in HoldersOfLast :
          h.claim.role = "admin" /\ last.args.at = h.at + JWT_EXPIRES_IN - 1
HasHash(row) == "passwordHash" \in DOMAIN row

\* C4: nothing UserService.create, findById, findAll or update returns, and no
\* body the register and login routes answer with, carries the passwordHash
\* field; a row found by UserService.findByEmail does.
C4_HashNeverLeaves ==
    /\ (last.op \in {"UserService.create", "UserService.findById", "UserService.update"}
            /\ last.res.ok)
          => ~ HasHash(last.res.value)
    /\ last.op = "UserService.findAll"
          => \A i \in 1..Len(last.res.value) : ~ HasHash(last.res.value[i])
    /\ last.op \in {"POST /api/auth/register", "POST /api/auth/login"}
          => /\ ~ HasHash(last.res.body)
             /\ "user" \in DOMAIN last.res.body => ~ HasHash(last.res.body.user)
    /\ (last.op = "UserService.findByEmail" /\ last.res.value # NoRow)
          => HasHash(last.res.value)

\* a registration answered 201 with the new user in the body
C4_Witness ==
    /\ last.op = "POST /api/auth/register"
    /\ last.res.status = 201
    /\ last.res.body.user.id \in {u.id : u \in users}

IsPostWrite(c) ==
    c.op \in {"POST /api/posts", "PATCH /api/posts/[id]", "DELETE /api/posts/[id]"}

\* C6: a post create, update or delete request with no Authorization header,
\* with one that is not a Bearer header, or with a token that fails
\* verification is answered 401 and leaves the posts table as it was.
C6_BadAuthIs401 ==
    [][(now' = now /\ IsPostWrite(last')
            /\ (~ IsBearer(last'.args.header)
                    \/ BadToken(last'.args.header.token, last'.args.at)))
        => /\ last'.res.status = 401
           /\ posts' = posts
           /\ postSeq' = postSeq]_vars

ExpiredHeld == {t \in Held : now >= t.payload.exp}

\* C7: on every entry point that checks a token, a request with an expired
\* token and the same request with a forged one are answered alike (same
\* status, same body or same redirect) and leave the same tables.
C7_ExpiredLikeForged ==
    \A e \in ExpiredHeld, f \in {Forged(t) : t \in Held} :
        /\ \A body \in CreateBodies :
              CreatePostRoute(Bearer(e), body) = CreatePostRoute(Bearer(f), body)
        /\ \A id \in KnownPostIds, body \in PatchBodies :
              UpdatePostRoute(Bearer(e), id, body) = UpdatePostRoute(Bearer(f), id, body)
        /\ \A id \in KnownPostIds :
              DeletePostRoute(Bearer(e), id) = DeletePostRoute(Bearer(f), id)
        /\ \A pathname \in Pathnames :
              middleware(pathname, Cookie(e)) = middleware(pathname, Cookie(f))
        /\ DashboardPage(Cookie(e)) = DashboardPage(Cookie(f))

\* the owner of a stored post has sent a PATCH for it with an expired token
C7_Witness ==
    /\ last.op = "PATCH /api/posts/[id]"
    /\ IsBearer(last.args.header)
    /\ last.args.header.token \in ExpiredHeld
    /\ last.args.at >= last.args.header.token.payload.exp
    /\ \E p \in posts :
          p.id = last.args.id /\ p.authorId = last.args.header.token.payload.userId

\* C11: PostService.create with a title whose derived slug is the slug of a
\* stored post (the same title again, or another title that derives the same
\* slug) fails with Conflict (409, CONFLICT) and adds no post.
C11_SlugCollisionIsConflict ==
    [][(now' = now /\ last'.op = "PostService.create"
            /\ \E p \in posts : p.slug = slugify(last'.args.title))
        => /\ Failed(last', 409, "CONFLICT")
           /\ posts' = posts
           /\ postSeq' = postSeq]_vars

(***************************************************************************)
(* The two services side by side, on a store in which two users have       *)
(* registered: posts are created as drafts or published, and a user's      *)
(* deletion reaches that user's posts.                                     *)
(***************************************************************************)
StoreTitles == {<<"H", "i">>, <<"i">>}

StoreInputs ==
    {[title |-> t, content |-> c] : t \in StoreTitles, c \in Contents}
    \cup {[title |-> t, content |-> c, published |-> b] :
            t \in StoreTitles, c \in Contents, b \in BOOLEAN}

StorePatches ==
    {<<>>} \cup {[title |-> t] : t \in StoreTitles} \cup {[published |-> b] : b \in BOOLEAN}

BlogSlugs == {slugify(t) : t \in StoreTitles} \cup {<<"o", "l", "d">>}

Blog ==
    /\ last' = Called("GET /blog", <<>>, BlogPage)
    /\ UNCHANGED <<users, posts, userSeq, postSeq, now, wallet, calls>>

BlogPost ==
    \E slug \in BlogSlugs :
        /\ last' = Called("GET /blog/[slug]", [slug |-> slug], BlogPostPage(slug))
        /\ UNCHANGED <<users, posts, userSeq, postSeq, now, wallet, calls>>

NextStore ==
    \/ Blog
    \/ BlogPost
    \/ UserFindById
    \/ UserFindByEmail
    \/ UserUpdate
    \/ UserDelete
    \/ PostFindPublished
    \/ PostFindByAuthor
    \/ PostFindById
    \/ PostFindBySlug
    \/ PostCreate(StoreInputs)
    \/ PostUpdate(StorePatches)
    \/ PostDelete

SpecStore == InitPost /\ [][NextStore]_vars

\* C12: a UserService.update that sets the email to one a different user
\* holds, and a PostService.update by the owner that sets a title whose
\* derived slug a different post holds, fail with Conflict (409, CONFLICT),
\* never with an untyped error, and leave the rows as they were.
C12_UpdateCollisionIsConflict ==
    [][/\ (/\ last'.op = "UserService.update"
           /\ "email" \in DOMAIN last'.args.data
           /\ \E u \in users : u.id = last'.args.id
           /\ \E o \in users : o.id # last'.args.id /\ o.email = last'.args.data.email)
          => Failed(last', 409, "CONFLICT") /\ users' = users
       /\ (/\ last'.op = "PostService.update"
           /\ Truthy(last'.args.data, "title")
           /\ \E p \in posts : p.id = last'.args.id /\ p.authorId = last'.args.authorId
           /\ \E o \in posts : o.id # last'.args.id
                                  /\ o.slug = slugify(last'.args.data.title))
          => Failed(last', 409, "CONFLICT") /\ posts' = posts]_vars

\* C13: in every state reachable by UserService create, update and delete
\* calls, no two stored users have the same email (compared exactly: emails
\* that differ in case are different emails).
C13_EmailsUnique == \A u \in users : \A v \in users : u.email = v.email => u = v

\* two users whose emails differ only in case, after an update that asked for
\* the other user's email was refused
C13_Witness ==
    /\ last.op = "UserService.update"
    /\ ~ last.res.ok
    /\ "email" \in DOMAIN last.args.data
    /\ \E u \in users : \E v \in users :
          /\ u.id = last.args.id
          /\ v.id # u.id
          /\ v.email = last.args.data.email
          /\ u.email # v.email

\* C14: after UserService.delete(u) succeeds no post with authorId u is
\* stored: PostService.findByAuthor(u) returns the empty sequence, findById on
\* each of u's former posts fails with NotFound, and the posts of every other
\* user are as they were.
C14_DeleteCascades ==
    [][\A u \in KnownUserIds :
          (last'.op = "UserService.delete" /\ last'.res.ok /\ last'.args.id = u)
             => /\ (PostService_findByAuthor(u).value = <<>>)'
                /\ \A p \in posts :
                      p.authorId = u
                         => (/\ ~ PostService_findById(p.id).ok
                             /\ PostService_findById(p.id).error.statusCode = 404
                             /\ PostService_findById(p.id).error.code = "NOT_FOUND")'
                /\ posts' = {p \in posts : p.authorId # u}]_vars

\* a user was deleted, a post handed out earlier is gone, another user's
\* post is still stored
C14_Witness ==
    /\ last.op = "UserService.delete"
    /\ last.res.ok
    /\ \E p \in posts : p.authorId # last.args.id
    /\ \E id \in 1..postSeq : ~ \E p \in posts : p.id = id
    /\ PostService_findByAuthor(last.args.id).value = <<>>

\* C15: a post is created as a draft unless published = true is supplied; the
\* flag is one of the two values; after creation it changes only in a
\* successful PostService.update whose acting id is the post's authorId (no
\* find, failed update, delete of another post or user update changes it);
\* and the owner can always move a post from draft to published and back.
C15_PublishedFlag ==
    /\ [](\A p \in posts :
            /\ p.published \in BOOLEAN
            /\ LET r == PostService_update(p.id, p.authorId, [published |-> ~ p.published])
               IN  r.res.ok /\ r.res.value.published = ~ p.published)
    /\ [][/\ (last'.op = "PostService.create" /\ last'.res.ok)
               => /\ last'.res.value \in posts'
                  /\ last'.res.value.published =
                        ("published" \in DOMAIN last'.args /\ last'.args.published)
          /\ \A p \in posts : \A q \in posts' :
                (q.id = p.id /\ q.published # p.published)
                   => /\ last'.op = "PostService.update"
                      /\ last'.res.ok
                      /\ last'.args.id = p.id
                      /\ last'.args.authorId = p.authorId]_vars

\* the owner has just withdrawn one post (it is a draft now) while another
\* post stays published
C15_Witness ==
    /\ last.op = "PostService.update"
    /\ last.res.ok
    /\ last.args.data = [published |-> FALSE]
    /\ \E p \in posts : p.id = last.args.id /\ ~ p.published
    /\ \E p \in posts : p.id # last.args.id /\ p.published

\* C16: in every reachable state PostService.findPublished() returns exactly
\* the stored posts whose published flag is true, each once: every published
\* post is in the result and no draft is.
C16_FindPublishedExact ==
    LET found == PostService_findPublished.value
    IN  /\ {found[i] : i \in 1..Len(found)} = {p \in posts : p.published}
        /\ Len(found) = Cardinality({p \in posts : p.published})
        /\ last.op = "PostService.findPublished" => last.res.ok /\ last.res.value = found

\* findPublished has returned one of the two stored posts; the other is a draft
C16_Witness ==
    /\ last.op = "PostService.findPublished"
    /\ Len(last.res.value) = 1
    /\ Cardinality(posts) = 2
    /\ \E p \in posts : ~ p.published

StoreUnchanged == UNCHANGED <<users, posts, userSeq, postSeq>>

\* C17: UserService.findById, update and delete, and PostService.findById and
\* findBySlug, called with an id or slug no stored row has (one deleted
\* earlier included) fail with NotFound (404, NOT_FOUND) and leave the store
\* unchanged; UserService.findByEmail on an unknown email returns the absent
\* sentinel and does not fail.
C17_MissingIsNotFound ==
    [][/\ (/\ last'.op \in {"UserService.findById", "UserService.update",
                            "UserService.delete"}
           /\ ~ \E u \in users : u.id = last'.args.id)
          => Failed(last', 404, "NOT_FOUND") /\ StoreUnchanged
       /\ (/\ last'.op = "PostService.findById"
           /\ ~ \E p \in posts : p.id = last'.args.id)
          => Failed(last', 404, "NOT_FOUND") /\ StoreUnchanged
       /\ (/\ last'.op = "PostService.findBySlug"
           /\ ~ \E p \in posts : p.slug = last'.args.slug)
          => Failed(last', 404, "NOT_FOUND") /\ StoreUnchanged
       /\ (/\ last'.op = "UserService.findByEmail"
           /\ ~ \E u \in users : u.email = last'.args.email)
          => last'.res.ok /\ last'.res.value = NoRow /\ StoreUnchanged]_vars

\* an update of a user who was deleted earlier, refused, while a post id
\* handed out earlier and the slug 'hi' are no longer found either
C17_Witness ==
    /\ last.op = "UserService.update"
    /\ Failed(last, 404, "NOT_FOUND")
    /\ last.args.id \in 1..userSeq
    /\ \E id \in 1..postSeq : ~ PostService_findById(id).ok
    /\ ~ PostService_findBySlug(<<"h", "i">>).ok

\* C18: a successful UserService.update changes only the name and/or email
\* it was given and the update timestamp of the target user; that user's id,
\* password hash, role and creation time, and every other user's row, are
\* unchanged. A successful PostService.update never changes the post's id,
\* authorId or creation time, nor any other post.
C18_UpdateFrame ==
    [][/\ (last'.op = "UserService.update" /\ last'.res.ok)
          => \E u \in users : \E v \in users' :
                /\ u.id = last'.args.id /\ v.id = u.id
                /\ v.passwordHash = u.passwordHash
                /\ v.role = u.role
                /\ v.createdAt = u.createdAt
                /\ "name" \notin DOMAIN last'.args.data => v.name = u.name
                /\ "email" \notin DOMAIN last'.args.data => v.email = u.email
                /\ users' \ {v} = users \ {u}
                /\ posts' = posts
       /\ (last'.op = "PostService.update" /\ last'.res.ok)
          => \E p \in posts : \E q \in posts' :
                /\ p.id = last'.args.id /\ q.id = p.id
                /\ q.authorId = p.authorId
                /\ q.createdAt = p.createdAt
                /\ posts' \ {q} = posts \ {p}
                /\ users' = users]_vars

\* a user has been renamed beside another user, and has kept the hash the
\* account was created with
C18_Witness ==
    /\ last.op = "UserService.update"
    /\ last.res.ok
    /\ last.args.data = [name |-> "Bob"]
    /\ \E u \in users :
          /\ u.id = last.args.id
          /\ u.name = "Bob"
          /\ verifyPassword("pw-one-1", u.passwordHash)
    /\ \E u \in users : u.id # last.args.id /\ u.name = "Ann"
    /\ posts # {}

\* C19: the middleware lets a request whose path starts with /dashboard
\* proceed only if it carries a token cookie that verifyToken accepts; every
\* other request to such a path (no cookie, or a cookie that fails
\* verification) is redirected to /login with callbackUrl set to the path.
C19_DashboardNeedsToken ==
    (last.op = "middleware" /\ StartsWithDashboard(last.args.pathname))
        => IF /\ last.args.cookie.present
              /\ verify(last.args.cookie.token, JWT_SECRET, last.args.at).ok
           THEN last.res = PassThrough
           ELSE last.res = Redirect("/login", [callbackUrl |-> last.args.pathname])

Messages == {"Authentication required", "Not the post owner", "x"}

\* an error of the taxonomy with this status and this code
IsKind(error, statusCode, code) ==
    error.isAppError /\ error.statusCode = statusCode /\ error.code = code

\* the two catch blocks that map AppError answer with the error's own status
RenderedWithOwnStatus(error) ==
    /\ RenderPostError(error).status = error.statusCode
    /\ RenderRegisterError(error).status = error.statusCode

\* the Authorization headers of a client whose session has not expired
Bearers == {Bearer(t) : t \in {h \in Held : verifyToken(h).ok}}

\* C20: each failure kind has its status and code from construction, whatever
\* the message: NotFound 404/NOT_FOUND, Validation 400/VALIDATION_ERROR (with
\* its details), Unauthenticated 401/UNAUTHORIZED, Forbidden 403/FORBIDDEN,
\* Conflict 409/CONFLICT; and a route handler answers an error of one of these
\* kinds, raised by the service it calls, with exactly that status.
C20_KindsAreFixed ==
    /\ \A hasId \in BOOLEAN :
          /\ IsKind(NotFoundError("Post", hasId), 404, "NOT_FOUND")
          /\ RenderedWithOwnStatus(NotFoundError("Post", hasId))
    /\ \A m \in Messages :
          /\ IsKind(ValidationError(m, "issues"), 400, "VALIDATION_ERROR")
          /\ ValidationError(m, "issues").details = "issues"
          /\ IsKind(UnauthorizedError(m), 401, "UNAUTHORIZED")
          /\ IsKind(ForbiddenError(m), 403, "FORBIDDEN")
          /\ IsKind(ConflictError(m), 409, "CONFLICT")
          /\ RenderedWithOwnStatus(ValidationError(m, "issues"))
          /\ RenderedWithOwnStatus(UnauthorizedError(m))
          /\ RenderedWithOwnStatus(ForbiddenError(m))
          /\ RenderedWithOwnStatus(ConflictError(m))
          /\ RenderLoginError(UnauthorizedError(m)).status = 401
    /\ \A header \in Bearers : \A id \in KnownPostIds :
          LET actor == verifyToken(header.token).value.userId
          IN  /\ \A body \in PatchBodies :
                    LET parsed == updatePostSchema(body)
                        made == PostService_update(id, actor, parsed.value).res
                    IN  (parsed.ok /\ ~ made.ok /\ made.error.isAppError)
                           => UpdatePostRoute(header, id, body).response.status
                                 = made.error.statusCode
              /\ LET made == PostService_delete(id, actor).res
                 IN  (~ made.ok /\ made.error.isAppError)
                        => DeletePostRoute(header, id).response.status
                              = made.error.statusCode
    /\ \A body \in RegisterBodies : \A salt \in Salts :
          LET parsed == registerSchema(body)
              made == UserService_create(parsed.value, salt).res
          IN  (parsed.ok /\ ~ made.ok /\ made.error.isAppError)
                 => RegisterRoute(body, salt).response.status = made.error.statusCode

\* a PATCH by a logged-in user who is not the owner, answered 403
C20_Witness ==
    /\ last.op = "PATCH /api/posts/[id]"
    /\ last.res.status = 403
    /\ IsBearer(last.args.header)
    /\ \E p \in posts :
          /\ p.id = last.args.id
          /\ PostService_update(p.id, last.args.header.token.payload.userId, <<>>).res
                = Throw(ForbiddenError("Not the post owner"))

(***************************************************************************)
(* The credential hasher on its own: passwords are hashed, each call with  *)
(* a salt no earlier call drew, and checked against the digests kept.      *)
(***************************************************************************)
\* 72 bytes that two long passwords share
LongPrefix == "aaaaaaaaaaaaaaaaaaaaaaaaaaaaaaaaaaaaaaaaaaaaaaaaaaaaaaaaaaaaaaaaaaaaaaaa"

HashPasswords == {"mypassword", "wrongpassword", LongPrefix \o "x", LongPrefix \o "y"}
HashSalts == {"s1", "s2", "s3"}
\* the number of digests the model keeps
MaxHashes == 2

\* the salts of the digests made so far
DrawnSalts == {d.hash.salt : d \in wallet}

\* wallet: the digests made so far, each with the number of the call that
\* made it and the password it was made from
HashPassword ==
    \E password \in HashPasswords, salt \in HashSalts \ DrawnSalts :
        LET hash == hashPassword(password, salt)
            call == Cardinality(wallet) + 1
        IN  /\ call <= MaxHashes
            /\ wallet' = wallet \cup {[call |-> call, password |-> password, hash |-> hash]}
            /\ last' = Called("hashPassword", [password |-> password], Return(hash))
            /\ UNCHANGED <<users, posts, userSeq, postSeq, now, calls>>

VerifyPassword ==
    \E password \in HashPasswords, d \in wallet :
        /\ last' = Called("verifyPassword",
                          [password |-> password, hash |-> d.hash, hashed |-> d.password],
                          Return(verifyPassword(password, d.hash)))
        /\ UNCHANGED <<users, posts, userSeq, postSeq, now, wallet, calls>>

NextHash ==
    \/ HashPassword
    \/ VerifyPassword

SpecHash == Init /\ [][NextHash]_vars

\* C21: verifyPassword(p, hashPassword(p)) is true for every password p, and
\* verifyPassword(p1, hashPassword(p2)) is false for every pair p1 # p2.
C21_VerifiesOnlyItsPassword ==
    last.op = "verifyPassword"
        => (last.res.value <=> last.args.password = last.args.hashed)

MaxSlugInput == 3

SlugAlphabet == {"H", "i", "2", " ", "-", "!"}

HelloWorld2024 ==
    <<"H", "e", "l", "l", "o", " ", "&", " ", "W", "o", "r", "l", "d", "!", " ",
      "2", "0", "2", "4">>

SlugTitles ==
    UNION {[1..n -> SlugAlphabet] : n \in 0..MaxSlugInput} \cup {HelloWorld2024}

Slugify ==
    \E title \in SlugTitles :
        /\ last' = Called("slugify", [title |-> title],
                          Return([slug |-> slugify(title), generated |-> generateSlug(title)]))
        /\ UNCHANGED <<users, posts, userSeq, postSeq, now, wallet, calls>>

\* the slug of the last call, used as a title
SlugifyAgain ==
    /\ last.op = "slugify"
    /\ last' = Called("slugify", [title |-> last.res.value.slug],
                      Return([slug |-> slugify(last.res.value.slug),
                              generated |-> generateSlug(last.res.value.slug)]))
    /\ UNCHANGED <<users, posts, userSeq, postSeq, now, wallet, calls>>

NextSlug ==
    \/ Slugify
    \/ SlugifyAgain

SpecSlug == Init /\ [][NextSlug]_vars

\* only a-z, 0-9 and single hyphens, none of them first or last
IsSlug(s) ==
    /\ \A i \in 1..Len(s) : IsAlnum(s[i]) \/ s[i] = "-"
    /\ \A i \in 1..Len(s) : s[i] = "-" => i > 1 /\ i < Len(s) /\ s[i + 1] # "-"

\* C23: the slug of a title is the title lowercased, every maximal run of
\* non-alphanumeric characters replaced by one hyphen, leading and trailing
\* hyphens removed: it holds only a-z, 0-9 and single hyphens, neither starts
\* nor ends with a hyphen, and the slug of a slug is that slug;
\* "Hello & World! 2024" gives "hello-world-2024".
C23_SlugShape ==
    /\ generateSlug(HelloWorld2024)
          = <<"h", "e", "l", "l", "o", "-", "w", "o", "r", "l", "d", "-", "2", "0", "2", "4">>
    /\ last.op = "slugify"
          => /\ IsSlug(last.res.value.generated)
             /\ generateSlug(last.res.value.generated) = last.res.value.generated
             /\ last.res.value.slug = last.res.value.generated
             /\ \A i \in 1..Len(last.args.title) :
                   IsAlnum(toLowerCase(last.args.title[i]))
                      => \E j \in 1..Len(last.res.value.generated) :
                            last.res.value.generated[j] = toLowerCase(last.args.title[i])

\* a title with a leading hyphen, a capital and a trailing other character
C23_Witness ==
    /\ last.op = "slugify"
    /\ last.args.title = <<"-", "H", "!">>
    /\ last.res.value.generated = <<"h">>

\* C24: the blog listing and the blog detail page show a post only while its
\* published flag is true: a draft (one never published, or one its owner
\* unpublished) is absent from the listing and not found on the detail page,
\* as is a slug no post has.
C24_BlogShowsPublishedOnly ==
    /\ LET listed == BlogPage.body.posts
       IN  {listed[i] : i \in 1..Len(listed)} = {p \in posts : p.published}
    /\ \A slug \in BlogSlugs :
          IF \E p \in posts : p.slug = slug /\ p.published
          THEN /\ BlogPostPage(slug).status = 200
               /\ BlogPostPage(slug).body.post \in posts
               /\ BlogPostPage(slug).body.post.slug = slug
          ELSE BlogPostPage(slug) = NotFoundPage
    /\ last.op = "GET /blog" => last.res = BlogPage
    /\ last.op = "GET /blog/[slug]" => last.res = BlogPostPage(last.args.slug)

\* the detail page of a stored draft, not found, while the other post is
\* published
C24_Witness ==
    /\ last.op = "GET /blog/[slug]"
    /\ last.res = NotFoundPage
    /\ \E p \in posts : p.slug = last.args.slug /\ ~ p.published
    /\ \E p \in posts : p.slug # last.args.slug /\ p.published

(***************************************************************************)
(* Service calls in flight. A service method runs its SELECT when it is    *)
(* called (findById and findByEmail have no await of their own) and the    *)
(* rest after the await, so another call can run in between.               *)
(***************************************************************************)
MaxCalls == 2

\* PostService.update after `await this.findById(id)`: the ownership test on
\* the row that was loaded, then UPDATE ... WHERE id RETURNING; [updated] of
\* an empty result is undefined
PostService_update_resume(call) ==
    LET rows == {p \in posts : p.id = call.id}
        row == CHOOSE p \in rows : TRUE
        updated == Patched(row, UpdateData(call.data), now)
    IN  IF call.post.authorId # call.authorId
        THEN [res |-> Throw(ForbiddenError("Not the post owner")), posts |-> posts]
        ELSE IF rows = {} THEN [res |-> Return(NoRow), posts |-> posts]
        ELSE IF \E o \in posts : o.id # call.id /\ o.slug = updated.slug
        THEN [res |-> Throw(SqliteUnique("posts.slug")), posts |-> posts]
        ELSE [res |-> Return(updated), posts |-> (posts \ rows) \cup {updated}]

\* PostService.delete after `await this.findById(id)`
PostService_delete_resume(call) ==
    IF call.post.authorId # call.authorId
    THEN [res |-> Throw(ForbiddenError("Not the post owner")), posts |-> posts]
    ELSE [res |-> Return(Void), posts |-> {p \in posts : p.id # call.id}]

\* UserService.create after `await this.findByEmail(data.email)`
UserService_create_resume(call) ==
    LET user == [id |-> userSeq + 1, email |-> call.data.email, name |-> call.data.name,
                 passwordHash |-> hashPassword(call.data.password, call.salt),
                 role |-> "user", createdAt |-> BootTime, updatedAt |-> BootTime]
    IN  IF call.existing # NoRow
        THEN [res |-> Throw(ConflictError("Email already registered")),
              users |-> users, userSeq |-> userSeq]
        ELSE IF \E o \in users : o.email = call.data.email
        THEN [res |-> Throw(SqliteUnique("users.email")),
              users |-> users, userSeq |-> userSeq]
        ELSE [res |-> Return(omitPassword(user)),
              users |-> users \cup {user}, userSeq |-> userSeq + 1]

RaceInputs == {[title |-> <<"H", "i">>, content |-> c] : c \in Contents}
RacePatches == {[title |-> <<"i">>]}

\* a call of update or delete, up to its await
PostCallBegins(op, patches) ==
    \E id \in KnownPostIds, authorId \in KnownUserIds, data \in patches :
        LET found == PostService_findById(id)
            args == [id |-> id, authorId |-> authorId, data |-> data]
        IN  /\ Cardinality(calls) < MaxCalls
            /\ IF found.ok
               THEN /\ calls' = calls \cup {[op |-> op, id |-> id, authorId |-> authorId,
                                             data |-> data, post |-> found.value]}
                    /\ UNCHANGED last
               ELSE /\ last' = Called(op, args, found)
                    /\ UNCHANGED calls
            /\ UNCHANGED <<users, posts, userSeq, postSeq, now, wallet>>

UpdateBegins == PostCallBegins("PostService.update", RacePatches)

DeleteBegins == PostCallBegins("PostService.delete", {<<>>})

UpdateResumes ==
    \E call \in calls :
        LET r == PostService_update_resume(call)
        IN  /\ call.op = "PostService.update"
            /\ posts' = r.posts
            /\ calls' = calls \ {call}
            /\ last' = Called(call.op, [id |-> call.id, authorId |-> call.authorId,
                                        data |-> call.data], r.res)
            /\ UNCHANGED <<users, userSeq, postSeq, now, wallet>>

DeleteResumes ==
    \E call \in calls :
        LET r == PostService_delete_resume(call)
        IN  /\ call.op = "PostService.delete"
            /\ posts' = r.posts
            /\ calls' = calls \ {call}
            /\ last' = Called(call.op, [id |-> call.id, authorId |-> call.authorId,
                                        data |-> call.data], r.res)
            /\ UNCHANGED <<users, userSeq, postSeq, now, wallet>>

NextRace ==
    \/ PostCreate(RaceInputs)
    \/ UpdateBegins
    \/ DeleteBegins
    \/ UpdateResumes
    \/ DeleteResumes

SpecRace == InitPost /\ [][NextRace]_vars

\* C25: an update whose post a concurrent delete by the owner removes between
\* the update's load and its write either returns the updated post or fails
\* with NotFound: it never completes successfully for a post that no longer
\* exists, and the deleted post does not come back.
C25_UpdateOfDeletedPost ==
    /\ [](last.op = "PostService.update"
            => /\ last.res.ok
                  => \E p \in posts : p.id = last.args.id /\ last.res.value = p
               /\ (/\ ~ \E p \in posts : p.id = last.args.id
                   /\ ~ Failed(last, 403, "FORBIDDEN"))
                     => Failed(last, 404, "NOT_FOUND"))
    /\ [][\A id \in 1..postSeq :
            (~ \E p \in posts : p.id = id) => ~ \E p \in posts' : p.id = id]_vars

(***************************************************************************)
(* Registrations in flight, from the empty store.                          *)
(***************************************************************************)
\* UserService.create up to `await this.findByEmail(data.email)`; each call
\* will hash with a salt of its own
CreateBegins ==
    \E email \in Emails, name \in Names, password \in Passwords,
       salt \in HashSalts \ {c.salt : c \in calls} :
        /\ Cardinality(calls) < MaxCalls
        /\ calls' = calls \cup {[op |-> "UserService.create", salt |-> salt,
                                 data |-> [email |-> email, name |-> name,
                                           password |-> password],
                                 existing |-> UserByEmail(email)]}
        /\ UNCHANGED <<users, posts, userSeq, postSeq, now, wallet, last>>

CreateResumes ==
    \E call \in calls :
        LET r == UserService_create_resume(call)
        IN  /\ call.op = "UserService.create"
            /\ userSeq < MaxUserId
            /\ users' = r.users
            /\ userSeq' = r.userSeq
            /\ calls' = calls \ {call}
            /\ last' = Called(call.op, call.data, r.res)
            /\ UNCHANGED <<posts, postSeq, now, wallet>>

NextSignup ==
    \/ CreateBegins
    \/ CreateResumes
    \/ UserDelete

SpecSignup == Init /\ [][NextSignup]_vars

\* C26: of two UserService.create calls with the same email that both look
\* the email up before either inserts, one creates the user and the other
\* fails with Conflict (409, CONFLICT); the store holds one user with that
\* email.
C26_RacingCreates ==
    /\ \A u \in users : \A v \in users : u.email = v.email => u = v
    /\ last.op = "UserService.create"
          => IF last.res.ok
             THEN \E u \in users : u.email = last.args.email /\ u.id = last.res.value.id
             ELSE Failed(last, 409, "CONFLICT")

(***************************************************************************)
(* Accounts come and go while their tokens stay in use: the routes beside  *)
(* UserService.delete.                                                     *)
(***************************************************************************)
NextChurn ==
    \/ Register
    \/ Login
    \/ UserDelete
    \/ CreatePost
    \/ UpdatePost
    \/ DeletePost

SpecChurn == Init /\ [][NextChurn]_vars

\* the ids handed out so far whose user is gone
DeletedUserIds == (1..userSeq) \ {u.id : u \in users}

\* the unexpired tokens the register and login routes issued for those ids
TokensOfDeleted ==
    {generateToken([userId |-> id, email |-> e, role |-> "user"]) :
        id \in DeletedUserIds, e \in Emails}

\* C27: user ids are never reused: a user created after a deletion does not
\* get the deleted user's id, so an unexpired token of a deleted user never
\* passes the ownership check of a post of another (also a later registered)
\* user, and a post create with such a token adds no post; every stored
\* post's authorId is the id of a stored user.
C27_IdsNeverReused ==
    /\ [](/\ \A p \in posts : \E u \in users : u.id = p.authorId
          /\ \A u \in users : u.id \in 1..userSeq
          /\ \A t \in TokensOfDeleted :
                /\ verifyToken(t).ok
                /\ \A id \in KnownPostIds :
                      /\ UpdatePostRoute(Bearer(t), id, [title |-> <<"i">>]).posts = posts
                      /\ DeletePostRoute(Bearer(t), id).posts = posts
                      /\ (\E p \in posts : p.id = id)
                            => /\ UpdatePostRoute(Bearer(t), id, <<>>).response.status = 403
                               /\ DeletePostRoute(Bearer(t), id).response.status = 403
                /\ \A body \in CreateBodies :
                      /\ CreatePostRoute(Bearer(t), body).posts = posts
                      /\ CreatePostRoute(Bearer(t), body).response.status # 201)
    /\ [][\A u \in users' :
            (~ \E o \in users : o.id = u.id) => u.id \notin 1..userSeq]_vars

\* the first user is gone, a user registered after that has a post, and the
\* client still holds the token of the deleted user
C27_Witness ==
    /\ 1 \in DeletedUserIds
    /\ \E p \in posts : p.authorId = 2
    /\ \E h \in wallet : h.claim.userId \in DeletedUserIds
    /\ last.op = "PATCH /api/posts/[id]"
    /\ last.res.status = 403

(***************************************************************************)
(* Post requests whose body names an author or an acting user.             *)
(***************************************************************************)
IdentityKeys == {"authorId", "userId"}

\* body with one more key
WithKey(body, key, id) ==
    [f \in (DOMAIN body) \cup {key} |-> IF f = key THEN id ELSE body[f]]

ClaimingCreateBodies ==
    {[title |-> t, content |-> "text"] : t \in {<<"H", "i">>, <<"h", "i", "!">>}}
        \cup {WithKey([title |-> t, content |-> "text"], k, id) :
                t \in {<<"H", "i">>}, k \in IdentityKeys, id \in 1..MaxUserId}

ClaimingPatchBodies ==
    {<<>>, [title |-> <<"h", "i", "!">>]}
        \cup {WithKey(<<>>, k, id) : k \in IdentityKeys, id \in 1..MaxUserId}

CreatePostClaiming ==
    \E header \in Headers, body \in ClaimingCreateBodies :
        LET r == CreatePostRoute(header, body)
        IN  /\ postSeq < MaxPostId
            /\ posts' = r.posts
            /\ postSeq' = r.postSeq
            /\ last' = Called("POST /api/posts",
                              [header |-> header, body |-> body, at |-> now], r.response)
            /\ UNCHANGED <<users, userSeq, now, wallet, calls>>

UpdatePostClaiming ==
    \E header \in Headers, id \in KnownPostIds, body \in ClaimingPatchBodies :
        LET r == UpdatePostRoute(header, id, body)
        IN  /\ posts' = r.posts
            /\ last' = Called("PATCH /api/posts/[id]",
                              [header |-> header, id |-> id, body |-> body, at |-> now],
                              r.response)
            /\ UNCHANGED <<users, userSeq, postSeq, now, wallet, calls>>

NextIdentity ==
    \/ Register
    \/ Login
    \/ CreatePostClaiming
    \/ UpdatePostClaiming
    \/ DeletePost

SpecIdentity == Init /\ [][NextIdentity]_vars

\* the userId claim of the bearer token of a request
ActingId(call) == verifyToken(call.args.header.token).value.userId

\* C28: a post created through POST /api/posts has the authorId of the
\* verified bearer token's userId claim; PATCH and DELETE act under that
\* claim's userId: they change or remove a post only of that author, and
\* leave every post's author as it was. No field of the request body sets or
\* overrides the author or the acting identity.
C28_IdentityFromToken ==
    [][/\ \A p \in posts' :
            (~ \E o \in posts : o.id = p.id)
                => /\ last'.op = "POST /api/posts"
                   /\ last'.res.status = 201
                   /\ IsBearer(last'.args.header)
                   /\ verifyToken(last'.args.header.token).ok
                   /\ p.authorId = ActingId(last')
                   /\ last'.res.body.authorId = ActingId(last')
       /\ \A o \in posts : \A p \in posts' : o.id = p.id => p.authorId = o.authorId
       /\ \A o \in posts :
            (o \notin posts')
                => /\ last'.op \in {"PATCH /api/posts/[id]", "DELETE /api/posts/[id]"}
                   /\ last'.args.id = o.id
                   /\ IsBearer(last'.args.header)
                   /\ verifyToken(last'.args.header.token).ok
                   /\ o.authorId = ActingId(last')
       /\ (/\ last'.op \in {"PATCH /api/posts/[id]", "DELETE /api/posts/[id]"}
           /\ IsBearer(last'.args.header)
           /\ verifyToken(last'.args.header.token).ok
           /\ \E o \in posts : o.id = last'.args.id /\ o.authorId # ActingId(last'))
                => last'.res.status = 403 /\ posts' = posts]_vars

\* a post was created by a request whose body named another user as author
C28_Witness ==
    /\ last.op = "POST /api/posts"
    /\ last.res.status = 201
    /\ "authorId" \in DOMAIN last.args.body
    /\ last.args.body.authorId # last.res.body.authorId
    /\ \E p \in posts : p.id = last.res.body.id /\ p.authorId = ActingId(last)


\* the token of a response names the user row u
TokenNames(response, u) ==
    /\ "token" \in DOMAIN response.body
    /\ verifyToken(response.body.token).ok
    /\ verifyToken(response.body.token).value.userId = u.id
    /\ verifyToken(response.body.token).value.email = u.email
    /\ verifyToken(response.body.token).value.role = u.role

\* the request changed no row and its response carries no token
Refused(response) ==
    /\ response.status \notin {200, 201}
    /\ "token" \notin DOMAIN response.body
    /\ UNCHANGED <<users, userSeq, posts, postSeq, wallet>>

\* this step records a call of the route that the state before did not show
NewCallOf(route) == last'.op = route /\ (last.op # route \/ last' # last)

\* C29: a token issued by register or login carries the id, email and role
\* of a user row that exists when it is issued: register issues one only
\* with the user it has just created, login only for a stored user with the
\* request's email whose stored hash the request's password verifies
\* against. A request that fails validation, hits the Conflict or fails the
\* credential check gets no token and changes no row. (Read on the steps
\* that record a new call of either route.)
C29_TokensNameStoredUsers ==
    [][/\ NewCallOf("POST /api/auth/register")
            => IF last'.res.status = 201
               THEN /\ registerSchema(last'.args.body).ok
                    /\ ~ \E o \in users : o.email = last'.args.body.email
                    /\ \E u \in users' :
                          /\ ~ \E o \in users : o.id = u.id
                          /\ u.email = last'.args.body.email
                          /\ (TokenNames(last.res, u))'
               ELSE /\ Refused(last'.res)
                    /\ last'.res.status = IF registerSchema(last'.args.body).ok
                                          THEN 409 ELSE 400
       /\ NewCallOf("POST /api/auth/login")
            => IF last'.res.status = 200
               THEN /\ users' = users
                    /\ \E u \in users :
                          /\ u.email = last'.args.body.email
                          /\ verifyPassword(last'.args.body.password, u.passwordHash)
                          /\ (TokenNames(last.res, u))'
               ELSE /\ Refused(last'.res)
                    /\ last'.res.status = IF loginSchema(last'.args.body).ok
                                          THEN 401 ELSE 400]_vars

\* a login with the stored password of a registered user got a token
C29_Witness ==
    /\ last.op = "POST /api/auth/login"
    /\ last.res.status = 200
    /\ \E u \in users : TokenNames(last.res, u) /\ u.email = last.args.body.email


\* well-formed login requests, for registered and unregistered emails
LoginProbes ==
    {[email |-> e, password |-> pw] :
        e \in Emails \cup {"b@x.io"}, pw \in Passwords \cup {"pw-wrong-2"}}

\* no user has the request's email
UnknownEmail(body) == ~ \E u \in users : u.email = body.email

\* a user has the request's email and the password fails against its hash
WrongPassword(body) ==
    \E u \in users : u.email = body.email /\ ~ verifyPassword(body.password, u.passwordHash)

\* C30: the login route answers a well-formed request with an unknown email
\* exactly as it answers one with a known email and a wrong password: status
\* 401 and the same body, so the response does not tell whether the email is
\* registered.
C30_LoginDoesNotRevealEmails ==
    /\ \A unknown \in LoginProbes : \A wrong \in LoginProbes :
          (/\ loginSchema(unknown).ok /\ UnknownEmail(unknown)
           /\ loginSchema(wrong).ok /\ WrongPassword(wrong))
              => /\ LoginRoute(unknown).status = 401
                 /\ LoginRoute(unknown) = LoginRoute(wrong)
    /\ (/\ last.op = "POST /api/auth/login"
        /\ loginSchema(last.args.body).ok
        /\ UnknownEmail(last.args.body) \/ WrongPassword(last.args.body))
          => last.res = Json([error |-> "Invalid email or password"], 401)

\* a login with an unregistered email was refused while a user is stored
\* whose email with a wrong password gets the same response
C30_Witness ==
    /\ last.op = "POST /api/auth/login"
    /\ loginSchema(last.args.body).ok
    /\ UnknownEmail(last.args.body)
    /\ last.res.status = 401
    /\ \E wrong \in LoginProbes : WrongPassword(wrong) /\ LoginRoute(wrong) = last.res
====
